---- MODULE Spec2Model ----
(***************************************************************************)
(* Model of the MentorMind chat widget (session-aware front-end script).   *)
(* Texts are sequences of one-character strings so that trim, escaping and *)
(* formatting are computed character by character, as the browser does.    *)
(*                                                                         *)
(* Scheduling: the browser runs one task at a time; the continuations of   *)
(* a settled promise (microtasks) run before the next UI event.            *)
(***************************************************************************)
EXTENDS Integers, Sequences, FiniteSets, TLC

VARIABLES storage, sid, loaded, bubbles, inputValue, disabled,
          inputFocused, calls, unhandled,
          tab, writes, sent,
          arg, result

\* other tabs of the same browser profile: the position of each tab in the
\* top-level script, the writers of the key in order, the requests sent
tabVars == <<tab, writes, sent>>

\* a text handed to the sanitizer and what came out of it
textVars == <<arg, result>>

\* what the widget of one page never touches
auxVars == <<tabVars, textVars>>

vars == <<storage, sid, loaded, bubbles, inputValue, disabled,
          inputFocused, calls, unhandled, auxVars>>

\* ---------------------------------------------------------------- bounds
\* accepted sends per page (caps the growth of the conversation)
MaxSends == 2

\* ------------------------------------------------------------ text values
\* undefined / null: a value no text equals (texts hold one-character strings)
Absent == <<"undefined">>

WhiteSpace == {" ", "\n", "\t"}

ErrPrefix == <<"E", "r", "r", "o", "r", " ", "c", "o", "n", "t", "a", "c", "t", "i", "n", "g", " ", "t", "h", "e", " ", "A", "I", " ", "A", "d", "v", "i", "s", "o", "r", ":", " ">>

RequestFailed == <<"r", "e", "q", "u", "e", "s", "t", " ", "f", "a", "i", "l", "e", "d">>

HttpPrefix == <<"H", "T", "T", "P", " ">>

Greeting == <<"M", "e", "r", "h", "a", "b", "a", "!", " ", "T", "u", "r", "k", " ", "f", "i", "n", "a", "n", "s", "a", "l", " ", "m", "e", "v", "z", "u", "a", "t", "l", "a", " ", "i", "l", "g", "i", "l", "i", " ", "s", "o", "r", "u", "n", "u", " ", "y", "a", "z", ",", " ", "y", "a", "r", "d", "i", "m", "c", "i", " ", "o", "l", "a", "y", "i", "m", ".">>

\* what the user can have in the input field
InputTexts == { << >>, <<" ", "\n">>, <<" ", "<", "a", "\n">> }

\* values the session id generator can produce (randomUUID / Date.now)
SidValues == {"sid1", "sid2"}

NoSid == "null"

\* HTTP statuses the backend can answer with
Statuses == {200, 500}

\* response bodies: not JSON, JSON null, or a JSON object with optional
\* string fields error and response
NonJson == [json |-> FALSE, isNull |-> FALSE, error |-> Absent, response |-> Absent]

JsonNull == [json |-> TRUE, isNull |-> TRUE, error |-> Absent, response |-> Absent]

SomeText == <<"h", "\n", "&">>

JsonObject(e, r) == [json |-> TRUE, isNull |-> FALSE, error |-> e, response |-> r]

Bodies == {NonJson, JsonNull,
           JsonObject(<< >>, Absent),
           JsonObject(Absent, << >>),
           JsonObject(SomeText, SomeText)}

\* messages of the error fetch rejects with (browser dependent, may be empty)
NetErrors == { <<"F", "a", "i", "l", "e", "d", " ", "t", "o", " ", "f", "e", "t", "c", "h">>, << >> }

\* --------------------------------------------------------------- helpers
\* the recursive helpers are functions, so that their argument is a value
Text == Seq(STRING)

\* String.prototype.trim
TrimLeft[s \in Text] ==
  IF s # << >> /\ Head(s) \in WhiteSpace THEN TrimLeft[Tail(s)] ELSE s

TrimRight[s \in Text] ==
  IF s # << >> /\ s[Len(s)] \in WhiteSpace
  THEN TrimRight[SubSeq(s, 1, Len(s) - 1)] ELSE s

trim(s) == TrimRight[TrimLeft[s]]

\* "<" is written as it is
EscapeChar_noLt(c) ==
  CASE c = "&" -> <<"&", "a", "m", "p", ";">>
    [] c = ">" -> <<"&", "g", "t", ";">>
    [] OTHER   -> <<c>>

\* serialisation of one character of a text node by innerHTML
EscapeChar(c) ==
  CASE c = "&" -> <<"&", "a", "m", "p", ";">>
    [] c = "<" -> <<"&", "l", "t", ";">>
    [] c = ">" -> <<"&", "g", "t", ";">>
    [] OTHER   -> <<c>>

EscapeSeq[s \in Text] ==
  IF s = << >> THEN << >> ELSE EscapeChar(Head(s)) \o EscapeSeq[Tail(s)]

\* sanitizeHTML: textContent = text ?? "", then read innerHTML
sanitizeHTML(text) == EscapeSeq[IF text = Absent THEN << >> ELSE text]

\* String.prototype.replace(/\n/g, "<br>")
ReplaceNewlines[s \in Text] ==
  IF s = << >> THEN << >>
  ELSE (IF Head(s) = "\n" THEN <<"<", "b", "r", ">">> ELSE <<Head(s)>>)
       \o ReplaceNewlines[Tail(s)]

\* the newlines are replaced before the text is escaped
formatResponse_replaceFirst(text) ==
  sanitizeHTML(ReplaceNewlines[IF text = Absent THEN << >> ELSE text])

formatResponse(text) == ReplaceNewlines[sanitizeHTML(text)]

\* decimal digits of a number, as template literal interpolation prints it
Digit(d) == CASE d = 0 -> "0" [] d = 1 -> "1" [] d = 2 -> "2" [] d = 3 -> "3"
              [] d = 4 -> "4" [] d = 5 -> "5" [] d = 6 -> "6" [] d = 7 -> "7"
              [] d = 8 -> "8" [] d = 9 -> "9"

ToStr[n \in Nat] ==
  IF n < 10 THEN <<Digit(n)>> ELSE ToStr[n \div 10] \o <<Digit(n % 10)>>

\* JavaScript truthiness of an optional string field
Truthy(v) == v # Absent /\ v # << >>

\* markup that holds no tag other than <br> and no character reference
\* other than the three the serialiser writes
Entities == { <<"&", "a", "m", "p", ";">>, <<"&", "l", "t", ";">>, <<"&", "g", "t", ";">> }

\* e occurs in h at position k
OccursAt(h, e, k) == k >= 1 /\ k + Len(e) - 1 <= Len(h) /\ SubSeq(h, k, k + Len(e) - 1) = e

StartsWith(h, e) == OccursAt(h, e, 1)

SafeMarkup(h) ==
  \A k \in 1..Len(h) :
    /\ h[k] = "<" => OccursAt(h, <<"<", "b", "r", ">">>, k)
    /\ h[k] = ">" => OccursAt(h, <<"<", "b", "r", ">">>, k - 3)
    /\ h[k] = "&" => \E e \in Entities : OccursAt(h, e, k)

Contains(h, c) == \E k \in 1..Len(h) : h[k] = c

\* ---------------------------------------------------- session identity
\* the stored value is ignored: a new id on every run of the script
StartScript_alwaysGenerate(st, g) == [sid |-> g, storage |-> g]

\* top-level script: read the key, generate and write back when missing
StartScript(st, g) ==
  IF st = NoSid THEN [sid |-> g, storage |-> g]
  ELSE [sid |-> st, storage |-> st]

\* ------------------------------------------------------ transport client
NoRes == [status |-> 0, body |-> NonJson]

NoOutcome == [ok |-> TRUE, text |-> Absent]

\* res.json() awaited without try/catch: a body that is not JSON makes
\* sendMessage reject with the parse error, whatever the status
sendMessage_noParseGuard(status, body) ==
  LET hasData == body.json /\ ~body.isNull
      data == body
      ok   == status >= 200 /\ status <= 299
  IN IF ~body.json
     THEN [ok |-> FALSE, text |-> <<"S", "y", "n", "t", "a", "x", "E", "r", "r", "o", "r">>]
     ELSE IF ~ok
     THEN [ok |-> FALSE,
           text |-> IF hasData /\ Truthy(data.error)
                    THEN data.error ELSE HttpPrefix \o ToStr[status]]
     ELSE [ok |-> TRUE,
           text |-> IF hasData /\ Truthy(data.response)
                    THEN data.response ELSE << >>]

\* lines 35-42 of sendMessage, applied to a received response
sendMessage(status, body) ==
  LET hasData == body.json /\ ~body.isNull
      data == body
      ok   == status >= 200 /\ status <= 299
  IN IF ~ok
     THEN [ok |-> FALSE,
           text |-> IF hasData /\ Truthy(data.error)
                    THEN data.error ELSE HttpPrefix \o ToStr[status]]
     ELSE [ok |-> TRUE,
           text |-> IF hasData /\ Truthy(data.response)
                    THEN data.response ELSE << >>]

\* ----------------------------------------------------- conversation view
\* the text is interpolated into the markup without escaping
addUserBubble_raw(bs, text) ==
  Append(bs, [cls |-> "user-message", html |-> text])

addUserBubble(bs, text) ==
  Append(bs, [cls |-> "user-message", html |-> sanitizeHTML(text)])

\* an empty text adds no bubble
addBotBubble_skipEmpty(bs, text, isError) ==
  IF text = << >> THEN bs
  ELSE Append(bs, [cls |-> IF isError THEN "bot-message error" ELSE "bot-message",
                   html |-> formatResponse(text)])

addBotBubble(bs, text, isError) ==
  Append(bs, [cls |-> IF isError THEN "bot-message error" ELSE "bot-message",
              html |-> formatResponse(text)])

\* ------------------------------------------------------ input controller
\* the part of the page state the send handler reads and writes
St == [bubbles |-> bubbles, inputValue |-> inputValue,
       disabled |-> disabled, calls |-> calls]

\* the payload carries no session id
NewCall_noSession(text, sessionId) ==
  [pc |-> "fetch",
   payload |-> [message |-> text, session_id |-> NoSid],
   res |-> NoRes,
   outcome |-> NoOutcome]

NewCall(text, sessionId) ==
  [pc |-> "fetch",
   payload |-> [message |-> text, session_id |-> sessionId],
   res |-> NoRes,
   outcome |-> NoOutcome]

\* the input field is not cleared when the send is accepted
handleSend_noClear(s, sessionId) ==
  LET text == trim(s.inputValue)
  IN IF text = << >> THEN s
     ELSE [bubbles    |-> addUserBubble(s.bubbles, text),
           inputValue |-> s.inputValue,
           disabled   |-> TRUE,
           calls      |-> Append(s.calls, NewCall(text, sessionId))]

\* the guard tests the raw value instead of the trimmed one
handleSend_noTrim(s, sessionId) ==
  LET text == trim(s.inputValue)
  IN IF s.inputValue = << >> THEN s
     ELSE [bubbles    |-> addUserBubble(s.bubbles, text),
           inputValue |-> << >>,
           disabled   |-> TRUE,
           calls      |-> Append(s.calls, NewCall(text, sessionId))]

\* sendMessage is called twice for one accepted send
handleSend_twoRequests(s, sessionId) ==
  LET text == trim(s.inputValue)
  IN IF text = << >> THEN s
     ELSE [bubbles    |-> addUserBubble(s.bubbles, text),
           inputValue |-> << >>,
           disabled   |-> TRUE,
           calls      |-> Append(Append(s.calls, NewCall(text, sessionId)),
                                 NewCall(text, sessionId))]

\* handleSend up to its first suspension (the fetch call)
handleSend(s, sessionId) ==
  LET text == trim(s.inputValue)
  IN IF text = << >> THEN s
     ELSE [bubbles    |-> addUserBubble(s.bubbles, text),
           inputValue |-> << >>,
           disabled   |-> TRUE,
           calls      |-> Append(s.calls, NewCall(text, sessionId))]

\* no catch block: the failure leaves handleSend as a rejected promise
handleSendResume_noCatch(bs, outcome) ==
  [bubbles  |-> IF outcome.ok THEN addBotBubble(bs, outcome.text, FALSE) ELSE bs,
   disabled |-> FALSE,
   focus    |-> TRUE,
   thrown   |-> ~outcome.ok]

\* cleanup written after the try block instead of in finally, with a catch
\* that returns early: the failure path skips it
handleSendResume_noFinally(bs, outcome) ==
  [bubbles  |-> IF outcome.ok
                THEN addBotBubble(bs, outcome.text, FALSE)
                ELSE addBotBubble(bs,
                       ErrPrefix \o (IF outcome.text # << >> THEN outcome.text
                                     ELSE RequestFailed), TRUE),
   disabled |-> ~outcome.ok,
   focus    |-> outcome.ok,
   thrown   |-> FALSE]

\* handleSend after the await: try / catch / finally
handleSendResume(bs, outcome) ==
  [bubbles  |-> IF outcome.ok
                THEN addBotBubble(bs, outcome.text, FALSE)
                ELSE addBotBubble(bs,
                       ErrPrefix \o (IF outcome.text # << >> THEN outcome.text
                                     ELSE RequestFailed), TRUE),
   disabled |-> FALSE,
   focus    |-> TRUE,
   thrown   |-> FALSE]

\* a click listener of a disabled button is never invoked
clickOutcome(s, sessionId) ==
  IF s.disabled THEN s ELSE handleSend(s, sessionId)

keydownOutcome(s, sessionId, key, shiftKey) ==
  IF key = "Enter" /\ ~shiftKey THEN handleSend(s, sessionId) ELSE s

Apply(r) ==
  /\ bubbles' = r.bubbles
  /\ inputValue' = r.inputValue
  /\ disabled' = r.disabled
  /\ calls' = r.calls

\* ----------------------------------------------------------- scheduling
InFlight == {i \in 1..Len(calls) : calls[i].pc # "done"}

\* a settled sendMessage promise whose continuation has not run yet
MicrotaskPending == \E i \in 1..Len(calls) : calls[i].pc = "settled"

\* the model stops accepting sends once MaxSends calls were made
CanAccept(r) == Len(r.calls) <= MaxSends

\* tabs that open the page besides the one whose widget is modelled above
Tabs == {"t1", "t2", "t3"}

\* readAt: how many writes of the key had happened when the tab read it
ClosedTab == [pc |-> "closed", got |-> NoSid, sid |-> NoSid, readAt |-> 0]

\* nothing was sanitized yet
NoResult == [fn |-> "none", out |-> << >>, back |-> << >>]

\* ---------------------------------------------------------------- Init
\* the browser profile before the page is opened: the key may be stored
\* already (an earlier visit) or not; no script state exists yet
PageInit ==
  /\ storage \in {NoSid} \cup SidValues
  /\ sid = NoSid
  /\ loaded = FALSE
  /\ bubbles = << >>
  /\ inputValue = << >>
  /\ disabled = FALSE
  /\ inputFocused = FALSE
  /\ calls = << >>
  /\ unhandled = FALSE
  /\ tab = [t \in Tabs |-> ClosedTab]
  /\ writes = << >>
  /\ sent = { }
  /\ result = NoResult

Init == PageInit /\ arg = << >>

\* the script has run in the current document
PageOpen == sid # NoSid

\* -------------------------------------------------------------- actions
\* the user edits the input field (it is never disabled)
Type(v) ==
  /\ PageOpen
  /\ ~MicrotaskPending
  /\ v # inputValue
  /\ inputValue' = v
  /\ inputFocused' = TRUE
  /\ UNCHANGED <<auxVars, storage, sid, loaded, bubbles, disabled, calls, unhandled>>

\* focus leaves the input field
Blur ==
  /\ PageOpen
  /\ ~MicrotaskPending
  /\ inputFocused
  /\ inputFocused' = FALSE
  /\ UNCHANGED <<auxVars, storage, sid, loaded, bubbles, inputValue, disabled, calls, unhandled>>

Click ==
  /\ PageOpen
  /\ ~MicrotaskPending
  /\ CanAccept(clickOutcome(St, sid))
  /\ Apply(clickOutcome(St, sid))
  /\ inputFocused' = IF disabled THEN inputFocused ELSE FALSE
  /\ UNCHANGED <<auxVars, storage, sid, loaded, unhandled>>

Keydown(key, shiftKey) ==
  /\ PageOpen
  /\ ~MicrotaskPending
  /\ inputFocused
  /\ CanAccept(keydownOutcome(St, sid, key, shiftKey))
  /\ Apply(keydownOutcome(St, sid, key, shiftKey))
  /\ UNCHANGED <<auxVars, storage, sid, loaded, inputFocused, unhandled>>

\* the greeting is appended without looking at the chat box
Load_noCheck ==
  /\ PageOpen
  /\ ~MicrotaskPending
  /\ ~loaded
  /\ loaded' = TRUE
  /\ bubbles' = addBotBubble(bubbles, Greeting, FALSE)
  /\ UNCHANGED <<auxVars, storage, sid, inputValue, disabled, inputFocused, calls, unhandled>>

\* window load event: greet when the chat box holds no bubble
Load ==
  /\ PageOpen
  /\ ~MicrotaskPending
  /\ ~loaded
  /\ loaded' = TRUE
  /\ bubbles' = IF bubbles = << >> THEN addBotBubble(bubbles, Greeting, FALSE)
                ELSE bubbles
  /\ UNCHANGED <<auxVars, storage, sid, inputValue, disabled, inputFocused, calls, unhandled>>

\* fetch resolves with a response (headers received)
FetchResolve(i) ==
  /\ PageOpen
  /\ ~MicrotaskPending
  /\ calls[i].pc = "fetch"
  /\ calls' = [calls EXCEPT ![i].pc = "json"]
  /\ UNCHANGED <<auxVars, storage, sid, loaded, bubbles, inputValue, disabled, inputFocused, unhandled>>

\* fetch rejects (network failure): sendMessage rejects with that error
FetchReject(i, m) ==
  /\ PageOpen
  /\ ~MicrotaskPending
  /\ calls[i].pc = "fetch"
  /\ calls' = [calls EXCEPT ![i].pc = "settled",
                            ![i].outcome = [ok |-> FALSE, text |-> m]]
  /\ UNCHANGED <<auxVars, storage, sid, loaded, bubbles, inputValue, disabled, inputFocused, unhandled>>

\* res.json() settles; sendMessage runs to its return or throw
JsonSettle(i, status, body) ==
  /\ PageOpen
  /\ ~MicrotaskPending
  /\ calls[i].pc = "json"
  /\ calls' = [calls EXCEPT ![i].pc = "settled",
                            ![i].res = [status |-> status, body |-> body],
                            ![i].outcome = sendMessage(status, body)]
  /\ UNCHANGED <<auxVars, storage, sid, loaded, bubbles, inputValue, disabled, inputFocused, unhandled>>

\* the continuation also empties the input field
Resume_clearsInput(i) ==
  /\ PageOpen
  /\ calls[i].pc = "settled"
  /\ LET r == handleSendResume(bubbles, calls[i].outcome)
     IN /\ bubbles' = r.bubbles
        /\ disabled' = r.disabled
        /\ inputFocused' = (r.focus \/ inputFocused)
        /\ unhandled' = (unhandled \/ r.thrown)
  /\ calls' = [calls EXCEPT ![i].pc = "done", ![i].res = NoRes]
  /\ inputValue' = << >>
  /\ UNCHANGED <<auxVars, storage, sid, loaded>>

\* continuation of handleSend after await sendMessage(text)
Resume(i) ==
  /\ PageOpen
  /\ calls[i].pc = "settled"
  /\ LET r == handleSendResume(bubbles, calls[i].outcome)
     IN /\ bubbles' = r.bubbles
        /\ disabled' = r.disabled
        /\ inputFocused' = (r.focus \/ inputFocused)
        /\ unhandled' = (unhandled \/ r.thrown)
  /\ calls' = [calls EXCEPT ![i].pc = "done", ![i].res = NoRes]
  /\ UNCHANGED <<auxVars, storage, sid, loaded, inputValue>>

\* the page is opened or loaded again: a new document, the script runs
\* from the top; g is the value the generator would produce
OpenPage(g) ==
  /\ ~MicrotaskPending
  /\ storage' = StartScript(storage, g).storage
  /\ sid' = StartScript(storage, g).sid
  /\ loaded' = FALSE
  /\ bubbles' = << >>
  /\ inputValue' = << >>
  /\ disabled' = FALSE
  /\ inputFocused' = FALSE
  /\ calls' = << >>
  /\ unhandled' = FALSE
  /\ UNCHANGED auxVars

Settle ==
  \E i \in 1..Len(calls) :
    \/ FetchResolve(i)
    \/ \E m \in NetErrors : FetchReject(i, m)
    \/ \E status \in Statuses, body \in Bodies : JsonSettle(i, status, body)
    \/ Resume(i)

Next ==
  \/ \E v \in InputTexts : Type(v)
  \/ Blur
  \/ Click
  \/ \E key \in {"Enter", "a"}, shiftKey \in BOOLEAN : Keydown(key, shiftKey)
  \/ Load
  \/ \E i \in 1..Len(calls) : FetchResolve(i)
  \/ \E i \in 1..Len(calls), m \in NetErrors : FetchReject(i, m)
  \/ \E i \in 1..Len(calls), status \in Statuses, body \in Bodies : JsonSettle(i, status, body)
  \/ \E i \in 1..Len(calls) : Resume(i)
  \/ \E g \in SidValues : OpenPage(g)

Spec == Init /\ [][Next]_vars

\* the requests of the calls settle: the network answers, the body is read,
\* the continuation runs
FairSpec == Spec /\ WF_vars(Settle)

\* ============================================================ legacy script
\* static/script.js: the earlier click handler, run by a page that does not
\* load the session-aware script (sid stays unset, no button locking)
LegacyPage == sid = NoSid

LegacyErrPrefix == <<"E", "r", "r", "o", "r", ":", " ">>

\* message of the error res.json() rejects with on a body that is not JSON
ParseError == <<"U", "n", "e", "x", "p", "e", "c", "t", "e", "d", " ", "t", "o", "k", "e", "n">>

\* message of the TypeError raised by data.response when data is null
NullError == <<"d", "a", "t", "a", " ", "i", "s", " ", "n", "u", "l", "l">>

\* sanitizeHTML of the legacy script: textContent = text (undefined reads
\* back as the empty string)
legacySanitizeHTML(text) == EscapeSeq[IF text = Absent THEN << >> ELSE text]

legacyFormatResponse(text) == ReplaceNewlines[legacySanitizeHTML(text)]

\* the bodies the legacy page is answered with: also an error with markup
\* characters and no response field
LegacyBodies == Bodies \cup {JsonObject(SomeText, Absent)}

NewLegacyCall(userInput) ==
  [pc |-> "fetch",
   payload |-> [message |-> userInput],
   res |-> NoRes,
   outcome |-> NoOutcome]

\* the handler returns while a request is pending (a lock the script lacks)
legacyClick_locked(s) ==
  LET userInput == s.inputValue
  IN IF userInput = << >> \/ (\E i \in 1..Len(s.calls) : s.calls[i].pc # "done") THEN s
     ELSE [bubbles    |-> Append(s.bubbles, [cls |-> "user-message",
                                             html |-> legacySanitizeHTML(userInput)]),
           inputValue |-> s.inputValue,
           disabled   |-> s.disabled,
           calls      |-> Append(s.calls, NewLegacyCall(userInput))]

\* the click listener up to its first suspension (the fetch call)
legacyClick(s) ==
  LET userInput == s.inputValue
  IN IF userInput = << >> THEN s
     ELSE [bubbles    |-> Append(s.bubbles, [cls |-> "user-message",
                                             html |-> legacySanitizeHTML(userInput)]),
           inputValue |-> s.inputValue,
           disabled   |-> s.disabled,
           calls      |-> Append(s.calls, NewLegacyCall(userInput))]

legacyErrorBubble(text) ==
  [cls |-> "bot-message error", html |-> LegacyErrPrefix \o legacySanitizeHTML(text)]

\* the bubble appended once response.json() has settled (lines 31-41)
legacyReplyBubble(body) ==
  IF ~body.json THEN legacyErrorBubble(ParseError)
  ELSE IF body.isNull THEN legacyErrorBubble(NullError)
  ELSE IF Truthy(body.response)
       THEN [cls |-> "bot-message", html |-> legacyFormatResponse(body.response)]
       ELSE legacyErrorBubble(body.error)

LegacyType(v) ==
  /\ LegacyPage
  /\ v # inputValue
  /\ inputValue' = v
  /\ inputFocused' = TRUE
  /\ UNCHANGED <<auxVars, storage, sid, loaded, bubbles, disabled, calls, unhandled>>

LegacyClick ==
  /\ LegacyPage
  /\ CanAccept(legacyClick(St))
  /\ Apply(legacyClick(St))
  /\ inputFocused' = FALSE
  /\ UNCHANGED <<auxVars, storage, sid, loaded, unhandled>>

LegacyFetchResolve(i) ==
  /\ LegacyPage
  /\ calls[i].pc = "fetch"
  /\ calls' = [calls EXCEPT ![i].pc = "json"]
  /\ UNCHANGED <<auxVars, storage, sid, loaded, bubbles, inputValue, disabled, inputFocused, unhandled>>

\* fetch rejects: the catch block, then the input is cleared
LegacyFetchReject(i, m) ==
  /\ LegacyPage
  /\ calls[i].pc = "fetch"
  /\ bubbles' = Append(bubbles, legacyErrorBubble(m))
  /\ inputValue' = << >>
  /\ calls' = [calls EXCEPT ![i].pc = "done"]
  /\ UNCHANGED <<auxVars, storage, sid, loaded, disabled, inputFocused, unhandled>>

\* response.json() settles: the reply or error bubble, then the input is
\* cleared (the handler never reads the status)
LegacyJsonSettle(i, body) ==
  /\ LegacyPage
  /\ calls[i].pc = "json"
  /\ bubbles' = Append(bubbles, legacyReplyBubble(body))
  /\ inputValue' = << >>
  /\ calls' = [calls EXCEPT ![i].pc = "done"]
  /\ UNCHANGED <<auxVars, storage, sid, loaded, disabled, inputFocused, unhandled>>

\* the page of the legacy script is loaded (again)
OpenLegacyPage ==
  /\ sid' = NoSid
  /\ loaded' = FALSE
  /\ bubbles' = << >>
  /\ inputValue' = << >>
  /\ disabled' = FALSE
  /\ inputFocused' = FALSE
  /\ calls' = << >>
  /\ unhandled' = FALSE
  /\ UNCHANGED <<auxVars, storage>>

LegacyNext ==
  \/ \E v \in InputTexts : LegacyType(v)
  \/ LegacyClick
  \/ \E i \in 1..Len(calls) : LegacyFetchResolve(i)
  \/ \E i \in 1..Len(calls), m \in NetErrors : LegacyFetchReject(i, m)
  \/ \E i \in 1..Len(calls), body \in LegacyBodies : LegacyJsonSettle(i, body)
  \/ OpenLegacyPage

\* a page that runs the legacy script only
LegacySpec == Init /\ [][LegacyNext]_vars

\* both scripts of the repository: a page runs one of them at a time
SiteSpec == Init /\ [][Next \/ LegacyNext]_vars

\* ================================================================ sanitizer
\* the two helpers applied to texts of a small alphabet
MaxLen == 3

\* the NUL character (one character, written by its name)
Nul == "NUL"

Alphabet == {"<", ">", "&", "a", "\n", "\r", Nul}

Letters == {"a"}

TextInputs == UNION { [1..n -> Alphabet] : n \in 0..MaxLen }

pageVars == <<storage, sid, loaded, bubbles, inputValue, disabled,
              inputFocused, calls, unhandled>>

\* the character a reference stands for
Decoded(e) ==
  CASE e = <<"&", "a", "m", "p", ";">> -> "&"
    [] e = <<"&", "l", "t", ";">> -> "<"
    [] e = <<"&", "g", "t", ";">> -> ">"

\* what is left of h after the tag that starts at its head (nothing when the
\* input ends inside the tag)
AfterTag(h) ==
  IF \E k \in 1..Len(h) : h[k] = ">"
  THEN LET k == CHOOSE j \in 1..Len(h) : h[j] = ">" /\ \A m \in 1..(j - 1) : h[m] # ">"
       IN SubSeq(h, k + 1, Len(h))
  ELSE << >>

\* markup assigned to innerHTML of a div and read back as textContent: the
\* parser turns CR and CR LF into LF, drops NUL, decodes the character
\* references and keeps no text of a tag
ReadBack[h \in Text] ==
  IF h = << >> THEN << >>
  ELSE IF Head(h) = "\r"
       THEN <<"\n">> \o ReadBack[IF Len(h) >= 2 /\ h[2] = "\n"
                                 THEN SubSeq(h, 3, Len(h)) ELSE Tail(h)]
  ELSE IF Head(h) = Nul THEN ReadBack[Tail(h)]
  ELSE IF \E e \in Entities : StartsWith(h, e)
       THEN LET e == CHOOSE x \in Entities : StartsWith(h, x)
            IN <<Decoded(e)>> \o ReadBack[SubSeq(h, Len(e) + 1, Len(h))]
  ELSE IF Head(h) = "<" /\ Len(h) >= 2 /\ h[2] \in Letters
       THEN ReadBack[AfterTag(h)]
  ELSE <<Head(h)>> \o ReadBack[Tail(h)]

TextInit == PageInit /\ storage = NoSid /\ arg \in TextInputs \cup {Absent}

TextSanitize ==
  /\ result' = [fn |-> "sanitizeHTML", out |-> sanitizeHTML(arg),
                back |-> ReadBack[sanitizeHTML(arg)]]
  /\ UNCHANGED <<pageVars, tabVars, arg>>

TextFormat ==
  /\ result' = [fn |-> "formatResponse", out |-> formatResponse(arg),
                back |-> ReadBack[formatResponse(arg)]]
  /\ UNCHANGED <<pageVars, tabVars, arg>>

TextNext ==
  \/ TextSanitize
  \/ TextFormat

TextSpec == TextInit /\ [][TextNext]_vars

\* ===================================================================== tabs
\* several tabs of one browser profile run the top-level script; storage is
\* shared, and the read and the write of a tab are separate steps between
\* which another tab may run

\* line 14: sid = localStorage.getItem(SID_KEY)
TabGetItem(t) ==
  /\ tab[t].pc = "closed"
  /\ tab' = [tab EXCEPT ![t] = [pc |-> "read", got |-> storage, sid |-> NoSid,
                                readAt |-> Len(writes)]]
  /\ UNCHANGED <<storage, writes, sent, textVars>>
  /\ UNCHANGED <<sid, loaded, bubbles, inputValue, disabled, inputFocused, calls, unhandled>>

\* the generated id is kept in memory and never stored
TabSetItem_noWrite(t, g) ==
  /\ tab[t].pc = "read"
  /\ tab' = [tab EXCEPT ![t].pc = "running", ![t].sid = StartScript(tab[t].got, g).sid]
  /\ UNCHANGED <<storage, writes, sent, textVars>>
  /\ UNCHANGED <<sid, loaded, bubbles, inputValue, disabled, inputFocused, calls, unhandled>>

\* lines 15-18: if (!sid) { generate g; setItem }, on the value read before
TabSetItem(t, g) ==
  /\ tab[t].pc = "read"
  /\ tab' = [tab EXCEPT ![t].pc = "running", ![t].sid = StartScript(tab[t].got, g).sid]
  /\ IF tab[t].got = NoSid
     THEN /\ storage' = StartScript(tab[t].got, g).storage
          /\ writes' = Append(writes, t)
     ELSE UNCHANGED <<storage, writes>>
  /\ UNCHANGED <<sent, textVars>>
  /\ UNCHANGED <<sid, loaded, bubbles, inputValue, disabled, inputFocused, calls, unhandled>>

\* a request leaves tab t: its payload, with the value storage holds and the
\* number of writes of the key at that time
TabSend(t) ==
  /\ tab[t].pc = "running"
  /\ sent' = sent \cup {[tab |-> t,
                         session_id |-> NewCall(<<"a">>, tab[t].sid).payload.session_id,
                         stored |-> storage,
                         nwrites |-> Len(writes)]}
  /\ sent' # sent
  /\ UNCHANGED <<storage, tab, writes, textVars>>
  /\ UNCHANGED <<sid, loaded, bubbles, inputValue, disabled, inputFocused, calls, unhandled>>

TabsNext ==
  \/ \E t \in Tabs : TabGetItem(t)
  \/ \E t \in Tabs, g \in SidValues : TabSetItem(t, g)
  \/ \E t \in Tabs : TabSend(t)

TabsSpec == Init /\ [][TabsNext]_vars

\* ------------------------------------------------------- step predicates
\* a send was accepted in this step: handleSend got past its guard
AcceptStep == Len(calls') = Len(calls) + 1

\* the continuation of call i ran in this step
ResumeStep(i) ==
  /\ i \in 1..Len(calls)
  /\ Len(calls') = Len(calls)
  /\ calls[i].pc = "settled"
  /\ calls'[i].pc = "done"

UserBubbles == {k \in 1..Len(bubbles) : bubbles[k].cls = "user-message"}

\* ---------------------------------------------------------------- claims
\* C1: at most one request is ever in flight: while a send started by
\* handleSend has not settled, no click and no Enter keydown starts a
\* second sendMessage call.
C1_AtMostOneInFlight == Cardinality(InFlight) <= 1

\* C2: in every reachable state the send button is disabled if and only if
\* a request is in flight.
C2_DisabledIffInFlight == disabled <=> (InFlight # {})

\* C3: whenever the request of a handleSend call settles, on success and on
\* failure alike, the button is enabled again and the input has the focus;
\* if every request eventually settles, a disabled button is eventually
\* enabled again.
C3_PendingReturnsToIdle ==
  /\ [][\A i \in 1..Len(calls) :
          ResumeStep(i) => ~disabled' /\ inputFocused']_vars
  /\ (disabled ~> ~disabled)

\* a call has settled with a failure, the button is enabled and the input focused
C3_Witness ==
  /\ \E i \in 1..Len(calls) : calls[i].pc = "done" /\ ~calls[i].outcome.ok
  /\ \E i \in 1..Len(calls) : calls[i].pc = "done" /\ calls[i].outcome.ok
  /\ ~disabled
  /\ inputFocused

\* res.json() of call i settled in this step and sendMessage returned or threw
JsonStep(i) ==
  /\ i \in 1..Len(calls)
  /\ Len(calls') = Len(calls)
  /\ calls[i].pc = "json"
  /\ calls'[i].pc = "settled"

\* position in the chat box of the k-th user bubble
NthUserBubble(k) ==
  CHOOSE j \in UserBubbles : Cardinality({m \in UserBubbles : m <= j}) = k

Is2xx(status) == status \in 200..299

\* a field of the body, as the wire protocol names it
FieldPresent(body, v) == body.json /\ ~body.isNull /\ v # Absent

\* C4: a send accepted in Idle with trimmed text t appends one user bubble
\* with text t and clears the input; when its request succeeds with response
\* text r, one bot bubble with text r and isError=false is appended, after
\* the user bubble of that send.
C4_SuccessPath ==
  [][/\ (AcceptStep /\ ~disabled) =>
          /\ bubbles' = Append(bubbles, [cls |-> "user-message",
                                         html |-> sanitizeHTML(trim(inputValue))])
          /\ inputValue' = << >>
     /\ \A i \in 1..Len(calls) :
          (ResumeStep(i) /\ Is2xx(calls[i].res.status)) =>
             LET body == calls[i].res.body
                 r == IF FieldPresent(body, body.response) THEN body.response ELSE << >>
             IN /\ bubbles' = Append(bubbles, [cls |-> "bot-message",
                                               html |-> formatResponse(r)])
                /\ i <= Cardinality(UserBubbles)
                /\ bubbles[NthUserBubble(i)].html = sanitizeHTML(calls[i].payload.message)
    ]_vars

\* one exchange completed with a non-empty reply: user bubble, then its bot
\* bubble, and the input field is empty
C4_Witness ==
  /\ Len(calls) = 1
  /\ calls[1].pc = "done" /\ calls[1].outcome.ok
  /\ calls[1].outcome.text = <<"h", "\n", "&">>
  /\ Len(bubbles) = 2
  /\ bubbles[1] = [cls |-> "user-message", html |-> <<"&", "l", "t", ";", "a">>]
  /\ bubbles[2] = [cls |-> "bot-message",
                   html |-> <<"h", "<", "b", "r", ">", "&", "a", "m", "p", ";">>]
  /\ inputValue = << >>

\* C5 as claimed: a request failing with message m appends one bot bubble
\* with isError=true whose text is m, nothing propagates out of handleSend
\* and the button is enabled afterwards.
C5_FailureTextIsMessage ==
  [][\A i \in 1..Len(calls) :
       (ResumeStep(i) /\ ~calls[i].outcome.ok) =>
          /\ bubbles' = Append(bubbles, [cls |-> "bot-message error",
                                         html |-> formatResponse(calls[i].outcome.text)])
          /\ ~unhandled'
          /\ ~disabled'
    ]_vars

\* C5 amended: the bubble text is "Error contacting the AI Advisor: "
\* followed by m, or by "request failed" when m is empty; nothing propagates
\* out of handleSend; the button is enabled afterwards, so a click is accepted.
C5_FailurePath ==
  [][\A i \in 1..Len(calls) :
       (ResumeStep(i) /\ ~calls[i].outcome.ok) =>
          LET m == calls[i].outcome.text
          IN /\ bubbles' = Append(bubbles,
                  [cls |-> "bot-message error",
                   html |-> formatResponse(ErrPrefix \o (IF m = << >> THEN RequestFailed ELSE m))])
             /\ ~unhandled'
             /\ ~disabled'
    ]_vars

\* a request failed with "HTTP 500": its error bubble is shown, the button is enabled
C5_Witness ==
  /\ \E i \in 1..Len(calls) :
       /\ calls[i].pc = "done"
       /\ calls[i].outcome = [ok |-> FALSE, text |-> <<"H", "T", "T", "P", " ", "5", "0", "0">>]
  /\ bubbles # << >>
  /\ bubbles[Len(bubbles)] =
       [cls |-> "bot-message error",
        html |-> ErrPrefix \o <<"H", "T", "T", "P", " ", "5", "0", "0">>]
  /\ ~disabled
  /\ ~unhandled

\* C6: a click or an Enter keydown with empty or whitespace-only input
\* appends no bubble, issues no request and leaves the button state and the
\* in-flight requests as they are.
C6_EmptyTriggerIsNoOp ==
  [][((Click \/ Keydown("Enter", FALSE)) /\ trim(inputValue) = << >>) =>
        /\ UNCHANGED <<bubbles, calls, disabled>>
        /\ InFlight' = InFlight
    ]_vars

\* whitespace-only text is in the input, the focus went to the button, and
\* no bubble and no request exist
C6_Witness ==
  /\ inputValue = <<" ", "\n">>
  /\ ~inputFocused
  /\ ~disabled
  /\ calls = << >>
  /\ bubbles = << >>
  /\ PageOpen

\* C7: in every state, Enter without shift has the same effect on bubbles,
\* requests, input value and button state as a click; Enter with shift
\* triggers no send.
C7_EnterSameAsClick ==
  /\ keydownOutcome(St, sid, "Enter", FALSE) = clickOutcome(St, sid)
  /\ keydownOutcome(St, sid, "Enter", TRUE) = St

\* the outcome the claim gives for a status and a body
ClaimedOutcome(status, body) ==
  IF Is2xx(status)
  THEN [ok |-> TRUE,
        text |-> IF FieldPresent(body, body.response) THEN body.response ELSE << >>]
  ELSE [ok |-> FALSE,
        text |-> IF FieldPresent(body, body.error) THEN body.error
                 ELSE HttpPrefix \o ToStr[status]]

\* the same, an empty error field counting as no error field
AmendedOutcome(status, body) ==
  IF Is2xx(status)
  THEN [ok |-> TRUE,
        text |-> IF FieldPresent(body, body.response) THEN body.response ELSE << >>]
  ELSE [ok |-> FALSE,
        text |-> IF FieldPresent(body, body.error) /\ body.error # << >>
                 THEN body.error
                 ELSE HttpPrefix \o ToStr[status]]

\* C8 as claimed: non-2xx fails with the body's error field if present,
\* otherwise "HTTP <status>"; 2xx resolves to the response field or "";
\* a non-JSON body counts as an empty parse result.
C8_OutcomeAsClaimed ==
  [][\A i \in 1..Len(calls) :
       JsonStep(i) =>
         calls'[i].outcome = ClaimedOutcome(calls'[i].res.status, calls'[i].res.body)
    ]_vars

\* C8 amended: the error field is used if present and non-empty.
C8_OutcomeAmended ==
  [][\A i \in 1..Len(calls) :
       JsonStep(i) =>
         calls'[i].outcome = AmendedOutcome(calls'[i].res.status, calls'[i].res.body)
    ]_vars

\* a 500 answer with a non-JSON body was mapped to the failure "HTTP 500"
C8_Witness ==
  \E i \in 1..Len(calls) :
    /\ calls[i].pc = "settled"
    /\ calls[i].res = [status |-> 500, body |-> NonJson]
    /\ calls[i].outcome = [ok |-> FALSE, text |-> <<"H", "T", "T", "P", " ", "5", "0", "0">>]

\* C9: the number of requests issued equals the number of user bubbles, and
\* a call that has finished (also with a failure) is never started again.
C9_OneRequestPerSend ==
  /\ [](Len(calls) = Cardinality(UserBubbles))
  /\ [][\A i \in 1..Len(calls) :
          (calls[i].pc = "done" /\ Len(calls') >= i) => calls'[i].pc = "done"]_vars

\* two sends were accepted, one of them failed, and two requests were issued
C9_Witness ==
  /\ Len(calls) = 2
  /\ Cardinality(UserBubbles) = 2
  /\ \E i \in 1..2 : calls[i].pc = "done" /\ ~calls[i].outcome.ok

\* C10: once the key holds a value, every load reads that value as its
\* session id and no event writes the key again.
C10_SidStable ==
  /\ [](PageOpen => sid = storage)
  /\ [][storage # NoSid => storage' = storage]_vars

\* the page was loaded with the key stored and a send was made with that id
C10_Witness ==
  /\ PageOpen
  /\ sid = storage
  /\ calls # << >>
  /\ calls[1].payload.session_id = storage

\* C11: every bubble of the chat box holds sanitized content: user input,
\* bot response, greeting and error messages were escaped before insertion
\* (a user bubble holds no tag at all, a bot bubble only line breaks).
C11_BubblesSanitized ==
  \A k \in 1..Len(bubbles) :
    /\ SafeMarkup(bubbles[k].html)
    /\ bubbles[k].cls = "user-message" => ~Contains(bubbles[k].html, "<")

\* a user text with "<" and a network error text with "&" are both shown escaped
C11_Witness ==
  /\ \E k \in 1..Len(bubbles) :
       /\ bubbles[k].cls = "user-message"
       /\ StartsWith(bubbles[k].html, <<" ", "&", "l", "t", ";", "a">>)
  /\ \E k \in 1..Len(bubbles) :
       /\ bubbles[k].cls = "bot-message error"
       /\ bubbles[k].html = LegacyErrPrefix \o <<"h", "\n", "&", "a", "m", "p", ";">>

\* the load listener ran in this step
LoadStep == ~loaded /\ loaded'

GreetingBubble == [cls |-> "bot-message", html |-> Greeting]

GreetingBubbles == {k \in 1..Len(bubbles) : bubbles[k] = GreetingBubble}

\* C12: a load event appends one greeting bot bubble (not an error bubble)
\* if and only if the chat box holds no bubble at that moment, and adds
\* nothing otherwise; the conversation never holds more than one greeting.
C12_Greeting ==
  /\ [][LoadStep =>
          /\ bubbles = << >> => bubbles' = <<GreetingBubble>>
          /\ bubbles # << >> => bubbles' = bubbles]_vars
  /\ [](Cardinality(GreetingBubbles) <= 1)

\* the load event came after a send: the chat box starts with a user bubble
\* and holds no greeting
C12_Witness ==
  /\ loaded
  /\ bubbles # << >>
  /\ bubbles[1].cls = "user-message"
  /\ GreetingBubbles = { }

BrTag == <<"<", "b", "r", ">">>

CountOcc(h, e) == Cardinality({k \in 1..Len(h) : OccursAt(h, e, k)})

\* the text a null or undefined argument stands for
ArgText == IF arg = Absent THEN << >> ELSE arg

\* character by character: a newline becomes a line break, any other
\* character its escaped form
EscapedWithBreaks[s \in Text] ==
  IF s = << >> THEN << >>
  ELSE (IF Head(s) = "\n" THEN BrTag
        ELSE IF Head(s) = "&" THEN <<"&", "a", "m", "p", ";">>
        ELSE IF Head(s) = "<" THEN <<"&", "l", "t", ";">>
        ELSE IF Head(s) = ">" THEN <<"&", "g", "t", ";">>
        ELSE <<Head(s)>>)
       \o EscapedWithBreaks[Tail(s)]

\* C13: formatResponse(text) is the escaped text with every newline replaced
\* by one unescaped <br>: as many <br> as newlines, no newline left, every
\* other segment the escaped form of the input segment.
C13_FormatResponse ==
  result.fn = "formatResponse" =>
    /\ result.out = EscapedWithBreaks[ArgText]
    /\ CountOcc(result.out, BrTag) = CountOcc(ArgText, <<"\n">>)
    /\ ~Contains(result.out, "\n")
    /\ CountOcc(result.out, <<"&", "l", "t", ";", "b", "r">>) = 0

\* "a", newline, "<" was formatted
C13_Witness ==
  /\ arg = <<"a", "\n", "<">>
  /\ result.fn = "formatResponse"
  /\ result.out = <<"a", "<", "b", "r", ">", "&", "l", "t", ";">>

\* C14 as claimed: sanitizeHTML(s) inserted as markup and read back as text
\* is s, for every s; it holds no "<" and no "&" that does not start a
\* character reference; a null argument gives the empty string.
C14_EscapeRoundTrip ==
  result.fn = "sanitizeHTML" =>
    /\ result.back = ArgText
    /\ ~Contains(result.out, "<")
    /\ SafeMarkup(result.out)
    /\ arg = Absent => result.out = << >>

\* C14 amended: the text read back is s for every s without a carriage
\* return and without NUL; the rest as claimed, for every s.
C14_EscapeRoundTripAmended ==
  result.fn = "sanitizeHTML" =>
    /\ (~Contains(ArgText, "\r") /\ ~Contains(ArgText, Nul)) => result.back = ArgText
    /\ ~Contains(result.out, "<")
    /\ SafeMarkup(result.out)
    /\ arg = Absent => result.out = << >>

\* "<a>" came back as text after escaping
C14_Witness ==
  /\ arg = <<"<", "a", ">">>
  /\ result.fn = "sanitizeHTML"
  /\ result.out = <<"&", "l", "t", ";", "a", "&", "g", "t", ";">>
  /\ result.back = arg

\* C15: every request issued carries the trimmed, non-empty input text of the
\* moment of the trigger (the text of the user bubble) as message and the
\* page's session id as session_id; when the request is issued the user
\* bubble is in the chat box, the input is empty and the button disabled.
C15_RequestPayload ==
  /\ [][AcceptStep =>
          LET c == calls'[Len(calls')]
          IN /\ c.pc = "fetch"
             /\ c.payload.message = trim(inputValue)
             /\ c.payload.message # << >>
             /\ c.payload.session_id = sid
             /\ bubbles' = Append(bubbles, [cls |-> "user-message",
                                            html |-> sanitizeHTML(c.payload.message)])
             /\ inputValue' = << >>
             /\ disabled']_vars
  /\ [](\A i \in 1..Len(calls) :
          /\ calls[i].payload.message # << >>
          /\ calls[i].payload.session_id = sid
          /\ sid \in SidValues)

\* " <a" and a newline were sent: the request is pending with message "<a"
\* and the page's session id, the bubble shows "&lt;a", the input is empty
\* and the button disabled
C15_Witness ==
  /\ Len(calls) = 1
  /\ calls[1].pc = "fetch"
  /\ calls[1].payload = [message |-> <<"<", "a">>, session_id |-> sid]
  /\ sid = "sid2"
  /\ bubbles = <<[cls |-> "user-message", html |-> <<"&", "l", "t", ";", "a">>]>>
  /\ inputValue = << >>
  /\ disabled

\* every tab has run the top-level script
AllStarted == \A t \in Tabs : tab[t].pc = "running"

\* C16 as claimed: every request sent from a tab carries the session id
\* storage holds at that time, whatever the interleaving of the tabs' reads
\* and writes; after the startups storage holds the last writer's value.
C16_RequestCarriesStoredId ==
  /\ \A r \in sent : r.session_id = r.stored
  /\ (AllStarted /\ writes # << >>) => storage = tab[writes[Len(writes)]].sid

\* C16 amended: every request carries the id its tab read or wrote at its
\* startup; that is the stored id unless another tab wrote the key between
\* the tab's read and the request; a tab that read a value keeps it and
\* writes nothing; after the startups storage holds the last writer's value.
C16_RequestCarriesTabId ==
  /\ \A r \in sent :
       /\ r.session_id = tab[r.tab].sid
       /\ r.session_id \in SidValues
       /\ (\A k \in (tab[r.tab].readAt + 1)..r.nwrites : writes[k] = r.tab)
            => r.session_id = r.stored
  /\ \A t \in Tabs :
       (tab[t].pc = "running" /\ tab[t].got # NoSid) =>
          /\ tab[t].sid = tab[t].got
          /\ \A k \in 1..Len(writes) : writes[k] # t
  /\ (AllStarted /\ writes # << >>) => storage = tab[writes[Len(writes)]].sid
  /\ (AllStarted /\ writes = << >>) => \A t \in Tabs : tab[t].sid = storage

\* two tabs read the empty key before either wrote: both wrote, with
\* different ids; the first writer sent its own id while storage held the
\* second writer's, and the second writer sent the stored one
C16_Witness ==
  /\ AllStarted
  /\ Len(writes) >= 2
  /\ tab[writes[1]].sid # tab[writes[2]].sid
  /\ \E r \in sent : r.tab = writes[1] /\ r.nwrites >= 2 /\ r.session_id # r.stored
  /\ \E r \in sent : r.tab = writes[Len(writes)] /\ r.nwrites = Len(writes)
                      /\ r.session_id = r.stored

\* bot bubbles (replies and error bubbles) other than the leading greeting
ReplyBubbles ==
  {k \in 1..Len(bubbles) :
     /\ bubbles[k].cls # "user-message"
     /\ ~(k = 1 /\ bubbles[k] = GreetingBubble)}

\* this step appended a bot bubble
BotBubbleAppended ==
  /\ Len(bubbles') = Len(bubbles) + 1
  /\ bubbles'[Len(bubbles')].cls # "user-message"

\* C17: the number of user bubbles is the number of bot bubbles other than
\* the greeting plus the number of requests in flight; the settle of a
\* request appends exactly one bot bubble (also for an empty response text);
\* a bot bubble is appended only by a settle or as the greeting.
C17_BubbleAccounting ==
  /\ [](Cardinality(UserBubbles) = Cardinality(ReplyBubbles) + Cardinality(InFlight))
  /\ [][\A i \in 1..Len(calls) :
          ResumeStep(i) =>
            /\ BotBubbleAppended
            /\ SubSeq(bubbles', 1, Len(bubbles)) = bubbles]_vars
  /\ [][BotBubbleAppended =>
          \/ \E i \in 1..Len(calls) : ResumeStep(i)
          \/ LoadStep /\ bubbles' = <<GreetingBubble>>]_vars

\* after the greeting, one send was answered with an empty response text (its
\* bot bubble is empty) and a second send is in flight
C17_Witness ==
  /\ Len(bubbles) = 4
  /\ bubbles[1] = GreetingBubble
  /\ bubbles[3] = [cls |-> "bot-message", html |-> << >>]
  /\ bubbles[4].cls = "user-message"
  /\ Len(calls) = 2
  /\ calls[1].pc = "done" /\ calls[1].outcome = [ok |-> TRUE, text |-> << >>]
  /\ calls[2].pc = "json"

\* number of leading bubbles that are the greeting (0 or 1)
GreetingOffset == IF bubbles # << >> /\ bubbles[1] = GreetingBubble THEN 1 ELSE 0

\* C18: after the optional leading greeting the conversation alternates user
\* bubble, bot bubble, user bubble, bot bubble, ...: no two user bubbles are
\* adjacent and a reply never follows a later exchange's user bubble.
C18_StrictAlternation ==
  \A k \in (GreetingOffset + 1)..Len(bubbles) :
    (bubbles[k].cls = "user-message") <=> ((k - GreetingOffset) % 2 = 1)

\* C19: the settling of a request, on success and on failure, leaves the text
\* of the input field, the stored session id and the earlier bubbles as they
\* are; the script empties the input only when a send is accepted, so text
\* typed while the request was pending is there after the reply bubble.
C19_SettleFrame ==
  /\ [][Settle =>
          /\ inputValue' = inputValue
          /\ storage' = storage
          /\ sid' = sid
          /\ SubSeq(bubbles', 1, Len(bubbles)) = bubbles]_vars
  /\ [][inputValue' # inputValue =>
          \/ AcceptStep
          \/ \E v \in InputTexts : Type(v)
          \/ \E g \in SidValues : OpenPage(g)]_vars

\* a failed request was answered with its error bubble and the text typed
\* meanwhile is in the input field
C19_Witness ==
  /\ Len(calls) = 1
  /\ calls[1].pc = "done" /\ ~calls[1].outcome.ok
  /\ Len(bubbles) = 2
  /\ bubbles[2].cls = "bot-message error"
  /\ inputValue = <<" ", "<", "a", "\n">>
  /\ storage = sid

\* a legacy request settled in this step
LegacySettleStep ==
  \E i \in 1..Len(calls) :
    /\ Len(calls') = Len(calls)
    /\ calls[i].pc # "done"
    /\ calls'[i].pc = "done"

\* C20: the legacy click handler neither locks nor trims: a click on
\* non-empty input, whitespace-only included and also while a request is
\* pending, issues a request whose payload is the raw input as message and
\* nothing else, next to the pending ones; the input field keeps its text
\* then and is emptied when a request settles.
C20_LegacyNoLocking ==
  /\ [][(LegacyClick /\ inputValue # << >>) =>
          /\ AcceptStep
          /\ calls'[Len(calls')].payload = [message |-> inputValue]
          /\ InFlight' = InFlight \cup {Len(calls')}
          /\ inputValue' = inputValue]_vars
  /\ [][LegacySettleStep => inputValue' = << >>]_vars
  /\ [][(inputValue' # inputValue /\ LegacyPage) =>
          \/ LegacySettleStep
          \/ \E v \in InputTexts : LegacyType(v)
          \/ OpenLegacyPage]_vars
  /\ [](\A i \in 1..Len(calls) : DOMAIN calls[i].payload = {"message"})

\* two requests with the whitespace-only message are pending at once and the
\* text is still in the input field
C20_Witness ==
  /\ Len(calls) = 2
  /\ calls[1].pc = "fetch" /\ calls[2].pc = "fetch"
  /\ calls[1].payload = [message |-> <<" ", "\n">>]
  /\ calls[2].payload = [message |-> <<" ", "\n">>]
  /\ inputValue = <<" ", "\n">>
  /\ Cardinality(UserBubbles) = 2

TypeOK ==
  /\ storage \in {NoSid} \cup SidValues
  /\ sid \in {NoSid} \cup SidValues
  /\ loaded \in BOOLEAN
  /\ disabled \in BOOLEAN
  /\ inputFocused \in BOOLEAN
  /\ inputValue \in InputTexts
  /\ Len(calls) <= MaxSends
====
